---- MODULE Spec2Model ----
(***************************************************************************)
(* The vector retrieval engine of the RAG examples:                        *)
(*   - the exact similarity index  (exercise_1_simple-rag-system)          *)
(*   - the normalized inner-product index with save/load                   *)
(*     (exercise_2_pdf-rag-system)                                         *)
(* Floating-point numbers are fixed-point integers (value * Scale) with a  *)
(* separate not-a-number flag; persistence is a directory holding the two  *)
(* artifacts index.faiss and documents.json.                               *)
(***************************************************************************)
EXTENDS Integers, Sequences, FiniteSets, TLC

VARIABLES
    variant,     \* which program runs: "exact" (exercise 1) or "normalized" (exercise 2)
    dimension,   \* normalized VectorStore.dimension
    index,       \* normalized VectorStore.index   (the faiss IndexFlatIP)
    documents,   \* normalized VectorStore.documents
    xdocuments,  \* exact VectorStore.documents
    next_id,     \* exact VectorStore.next_id
    fs,          \* the directory save/load work on
    saved,       \* history: the state handed to the save whose artifacts fs holds in full
    issued,      \* history: the ids add has returned on this index instance
    metaobj,     \* normalized index: which dict object each record's metadata is,
                 \* named by the position of the first record that holds it
    pdf,         \* load_pdf: its arguments, its position and its local variables
    ret          \* the last call: its name, arguments and outcome

vars == <<variant, dimension, index, documents, xdocuments, next_id, fs, saved, issued,
         metaobj, pdf, ret>>

----------------------------------------------------------------------------
(* Bounds of the model *)

\* most records the exact index is grown to
MaxDocs == 3
\* most vectors the normalized index is grown to
MaxVecs == 2
\* most pages of a PDF
MaxPages == 2
\* largest chunk_size load_pdf is called with
MaxChunkSize == 2

----------------------------------------------------------------------------
(* Numbers *)

\* fixed-point resolution standing for the float precision of a component or score
Scale == 1000

F(x) == [nan |-> FALSE, v |-> x]
NaN == [nan |-> TRUE, v |-> 0]
\* the score faiss leaves in a result slot it did not fill
NegInf == F(0 - Scale * Scale)

Sign(x) == IF x < 0 THEN 0 - 1 ELSE 1
Min(a, b) == IF a <= b THEN a ELSE b
Max(a, b) == IF a >= b THEN a ELSE b

RECURSIVE DotUpTo(_, _, _)
DotUpTo(a, b, n) == IF n = 0 THEN 0 ELSE a[n] * b[n] + DotUpTo(a, b, n - 1)

\* np.dot of two raw vectors of equal length
Dot(a, b) == DotUpTo(a, b, Len(a))

\* the square of np.linalg.norm
Norm2(v) == Dot(v, v)

\* the integer nearest to sqrt(a / b), for a >= 0 and b > 0, searched in lo..hi
RECURSIVE SqrtQuot(_, _, _, _)
SqrtQuot(a, b, lo, hi) ==
    IF lo >= hi THEN lo
    ELSE LET mid == (lo + hi + 1) \div 2
         IN  IF (2 * mid - 1) * (2 * mid - 1) * b <= 4 * a
             THEN SqrtQuot(a, b, mid, hi)
             ELSE SqrtQuot(a, b, lo, mid - 1)

\* n / d rounded to the nearest integer
RoundDiv(n, d) == (2 * n + d) \div (2 * d)

----------------------------------------------------------------------------
(* Inputs: the texts the callers insert, with the embedding and metadata   *)
(* each is inserted with.                                                  *)

Texts == {"A", "B", "C", "Z", "W"}

\* EmbeddingModel.embed: text -> vector ("W" comes from a model of another dimension)
Emb(t) ==
    CASE t = "A" -> <<1, 0>>
      [] t = "B" -> <<0, 1>>
      [] t = "C" -> <<1, 1>>
      [] t = "Z" -> <<0, 0>>
      [] OTHER   -> <<1, 0, 0>>

\* a metadata argument: None, or a dict given as its items in insertion order
NoneMeta == [isNone |-> TRUE, kv |-> <<>>]
EmptyDict == [isNone |-> FALSE, kv |-> <<>>]
PageMeta(n) == [isNone |-> FALSE, kv |-> << <<"page", n>> >>]

\* the metadata each text is inserted with
Meta(t) ==
    CASE t = "A" -> PageMeta(1)
      [] t = "B" -> EmptyDict
      [] t = "C" -> NoneMeta
      [] t = "Z" -> PageMeta(2)
      [] OTHER   -> EmptyDict

\* Python's `metadata or {}`: None and the empty dict are falsy
OrEmpty(m) == IF m.isNone \/ m.kv = <<>> THEN EmptyDict ELSE m

\* EmbeddingModel.dimension, which RAGPipeline passes to VectorStore(dimension=...)
Dim == Len(Emb("A"))

----------------------------------------------------------------------------
(* The similarity structure (faiss.IndexFlatIP) of the normalized index *)

\* the first n components of v divided by its norm (whose square is n2)
RECURSIVE Scaled(_, _, _)
Scaled(v, n2, n) ==
    IF n = 0 THEN <<>>
    ELSE Append(Scaled(v, n2, n - 1),
                IF n2 = 0 THEN NaN
                ELSE F(Sign(v[n]) * SqrtQuot(v[n] * v[n] * Scale * Scale, n2, 0, Scale)))

\* v / np.linalg.norm(v) as float32: 0/0 is nan in every component
Normalize(v) == Scaled(v, Norm2(v), Len(v))

\* embeddings / np.linalg.norm(embeddings, axis=1, keepdims=True)
NormalizeRows(rows) == [i \in 1..Len(rows) |-> Normalize(rows[i])]

\* faiss.IndexFlatIP(dimension)
EmptyIndex(d) == [d |-> d, xb |-> <<>>]

ntotal(ix) == Len(ix.xb)

\* index.add asserts that the rows have the index's dimension
IndexAccepts(ix, rows) == \A i \in 1..Len(rows) : Len(rows[i]) = ix.d

\* (a changed index.add: the new rows are put in front of the stored ones)
IndexAddInFront(ix, rows) == [ix EXCEPT !.xb = rows \o @]

IndexAdd(ix, rows) == [ix EXCEPT !.xb = @ \o rows]

RECURSIVE ProdUpTo(_, _, _)
ProdUpTo(x, y, n) == IF n = 0 THEN 0 ELSE x[n].v * y[n].v + ProdUpTo(x, y, n - 1)

\* the inner product of two stored (fixed-point) vectors; nan is contagious
InnerProduct(x, y) ==
    IF \E i \in 1..Len(x) : x[i].nan \/ y[i].nan THEN NaN
    ELSE F(RoundDiv(ProdUpTo(x, y, Len(x)), Scale))

\* (a changed order: lower score first)
BeforeAscending(scores, i, j) ==
    \/ scores[i].v < scores[j].v
    \/ scores[i].v = scores[j].v /\ i <= j

\* (a changed order: among equal scores the later position first)
BeforeLaterFirst(scores, i, j) ==
    \/ scores[i].v > scores[j].v
    \/ scores[i].v = scores[j].v /\ i >= j

\* position i ranks before position j: higher score, then earlier position
Before(scores, i, j) ==
    \/ scores[i].v > scores[j].v
    \/ scores[i].v = scores[j].v /\ i <= j

\* the k best positions of S, best first
RECURSIVE TopK(_, _, _)
TopK(S, scores, k) ==
    IF k <= 0 \/ S = {} THEN <<>>
    ELSE LET b == CHOOSE i \in S : \A j \in S : Before(scores, i, j)
         IN  <<b>> \o TopK(S \ {b}, scores, k - 1)

\* the inner product of the query with the first n stored vectors, in storage order
RECURSIVE InnerProducts(_, _, _)
InnerProducts(xb, q, n) ==
    IF n = 0 THEN <<>> ELSE Append(InnerProducts(xb, q, n - 1), InnerProduct(xb[n], q))

\* index.search(query, k) for one query row and k > 0: k (score, idx) slots, idx
\* counted from 0; a record whose score is nan never enters the result heap and
\* the slots left over keep idx -1
IndexSearch(ix, q, k) ==
    LET scores == InnerProducts(ix.xb, q, ntotal(ix))
        top == TopK({i \in 1..ntotal(ix) : ~scores[i].nan}, scores, k)
    IN  [j \in 1..k |->
            IF j <= Len(top) THEN [score |-> scores[top[j]], idx |-> top[j] - 1]
            ELSE [score |-> NegInf, idx |-> 0 - 1]]

----------------------------------------------------------------------------
(* The normalized index: exercise_2_pdf-rag-system/src/vector_store.py *)

\* the metadatas argument of add_batch: None, or a list
NoMetas == [isNone |-> TRUE, items |-> <<>>]
MetaList(ms) == [isNone |-> FALSE, items |-> ms]

\* (a changed add: the record is appended before the vector is handed to the index)
AddResultAppendingFirst(ix, docs, text, embedding, metadata) ==
    LET row == Normalize(embedding)
        appended == Append(docs, [text |-> text, metadata |-> OrEmpty(metadata)])
    IN  IF ~IndexAccepts(ix, <<row>>)
        THEN [status |-> "error", index |-> ix, documents |-> appended, id |-> 0 - 1]
        ELSE [status |-> "ok", index |-> IndexAdd(ix, <<row>>), documents |-> appended,
              id |-> Len(docs)]

\* add: the store after the call and what the call gives back
AddResult(ix, docs, text, embedding, metadata) ==
    LET row == Normalize(embedding)
    IN  IF ~IndexAccepts(ix, <<row>>)
        THEN [status |-> "error", index |-> ix, documents |-> docs, id |-> 0 - 1]
        ELSE [status |-> "ok",
              index |-> IndexAdd(ix, <<row>>),
              documents |-> Append(docs, [text |-> text, metadata |-> OrEmpty(metadata)]),
              id |-> Len(docs)]

\* add_batch: zip(texts, metadatas) stops at the shorter of the two
AddBatchResult(ix, docs, texts, embeddings, metadatas) ==
    LET normalized == NormalizeRows(embeddings)
        ms == IF metadatas.isNone \/ metadatas.items = <<>>
              THEN [i \in 1..Len(texts) |-> EmptyDict]
              ELSE metadatas.items
        n == Min(Len(texts), Len(ms))
    IN  IF ~IndexAccepts(ix, normalized)
        THEN [status |-> "error", index |-> ix, documents |-> docs]
        ELSE [status |-> "ok",
              index |-> IndexAdd(ix, normalized),
              documents |-> docs \o [i \in 1..n |-> [text |-> texts[i], metadata |-> ms[i]]]]

\* the dict objects of the records one add_batch appends: `[{}] * len(texts)` is a
\* list holding one dict len(texts) times; a metadatas list holds the caller's dicts
BatchObjects(docs, texts, metadatas) ==
    LET shared == metadatas.isNone \/ metadatas.items = <<>>
        n == IF shared THEN Len(texts) ELSE Min(Len(texts), Len(metadatas.items))
    IN  [i \in 1..n |-> IF shared THEN Len(docs) + 1 ELSE Len(docs) + i]

\* doc["metadata"]["seen"] = 1 on a dict that has no such key
WithSeen(m) == [isNone |-> FALSE, kv |-> Append(m.kv, <<"seen", 1>>)]

\* search hands out the stored dicts themselves; a caller writing the metadata of
\* record i writes the dict object, which every record holding that object shows
SetMetadataResult(docs, objs, i) ==
    [j \in 1..Len(docs) |->
        IF objs[j] = objs[i] THEN [docs[j] EXCEPT !.metadata = WithSeen(@)] ELSE docs[j]]

\* search: the (document, score) pairs, or the error raised on the way
SearchResult(ix, docs, query_embedding, top_k) ==
    IF ntotal(ix) = 0 THEN [status |-> "ok", results |-> <<>>]
    ELSE
      LET query == Normalize(query_embedding)
          k == Min(top_k, ntotal(ix))
      IN  IF Len(query) # ix.d \/ k <= 0
          THEN [status |-> "error", results |-> <<>>]
          ELSE
            LET found == IndexSearch(ix, query, k)
                hits == SelectSeq(found, LAMBDA r : r.idx >= 0)
            IN  IF \E j \in 1..Len(hits) : hits[j].idx >= Len(docs)
                THEN [status |-> "error", results |-> <<>>]
                ELSE [status |-> "ok",
                      results |-> [j \in 1..Len(hits) |->
                          [doc |-> docs[hits[j].idx + 1], score |-> hits[j].score]]]

\* count
Count(docs) == Len(docs)

----------------------------------------------------------------------------
(* The exact index: exercise_1_simple-rag-system/src/vector_store.py *)

\* (a changed _cosine_similarity: no test for a zero norm, 0/0 is nan)
CosineSimilarityDividing(vec1, vec2) ==
    LET dot_product == Dot(vec1, vec2)
        n1 == Norm2(vec1)
        n2 == Norm2(vec2)
    IN  IF n1 = 0 \/ n2 = 0 THEN NaN
        ELSE F(Sign(dot_product)
                 * SqrtQuot(dot_product * dot_product * Scale * Scale, n1 * n2, 0, Scale))

\* _cosine_similarity
CosineSimilarity(vec1, vec2) ==
    LET dot_product == Dot(vec1, vec2)
        n1 == Norm2(vec1)
        n2 == Norm2(vec2)
    IN  IF n1 = 0 \/ n2 = 0 THEN F(0)
        ELSE F(Sign(dot_product)
                 * SqrtQuot(dot_product * dot_product * Scale * Scale, n1 * n2, 0, Scale))

\* EmbeddingModel.similarity (exercise 1): the same computation on two embeddings
Similarity(embedding1, embedding2) ==
    LET dot_product == Dot(embedding1, embedding2)
        norm1 == Norm2(embedding1)
        norm2 == Norm2(embedding2)
    IN  IF norm1 = 0 \/ norm2 = 0 THEN F(0)
        ELSE F(Sign(dot_product)
                 * SqrtQuot(dot_product * dot_product * Scale * Scale, norm1 * norm2, 0, Scale))

\* the similarity of the query to the first n documents, in document order
RECURSIVE Similarities(_, _, _)
Similarities(docs, query_embedding, n) ==
    IF n = 0 THEN <<>>
    ELSE Append(Similarities(docs, query_embedding, n - 1),
                CosineSimilarity(query_embedding, docs[n].embedding))

\* (a changed slice: the last k elements, s[-k:])
SliceSuffix(s, k) == SubSeq(s, Len(s) - Min(Max(k, 0), Len(s)) + 1, Len(s))

\* Python's s[:k]
SlicePrefix(s, k) ==
    SubSeq(s, 1, IF k >= 0 THEN Min(k, Len(s)) ELSE Max(Len(s) + k, 0))

\* (a changed add: the counter is not advanced)
XAddResultKeepingCounter(docs, nid, text, embedding, metadata) ==
    [documents |-> Append(docs, [id |-> nid, text |-> text, embedding |-> embedding,
                                 metadata |-> OrEmpty(metadata)]),
     next_id |-> nid,
     id |-> nid]

\* Document(...) then append, next_id += 1, return doc.id
XAddResult(docs, nid, text, embedding, metadata) ==
    [documents |-> Append(docs, [id |-> nid, text |-> text, embedding |-> embedding,
                                 metadata |-> OrEmpty(metadata)]),
     next_id |-> nid + 1,
     id |-> nid]

\* search: np.dot raises on operands of different length; the sort is stable
XSearchResult(docs, query_embedding, top_k) ==
    IF docs = <<>> THEN [status |-> "ok", results |-> <<>>]
    ELSE IF \E i \in 1..Len(docs) : Len(docs[i].embedding) # Len(query_embedding)
    THEN [status |-> "error", results |-> <<>>]
    ELSE
      LET sims == Similarities(docs, query_embedding, Len(docs))
          order == TopK(1..Len(docs), sims, Len(docs))
          similarities == [j \in 1..Len(docs) |-> [doc |-> docs[order[j]], score |-> sims[order[j]]]]
      IN  [status |-> "ok", results |-> SlicePrefix(similarities, top_k)]

----------------------------------------------------------------------------
(* The pipelines: rag_pipeline.py of exercise 1 (simple) and exercise 2 (PDF) *)

\* top_k: int = 3 of retrieve and query
DefaultTopK == 3

\* PDF pipeline, retrieve: a (text, metadata, score) tuple per search result
\* (a tuple is written as a record naming its components)
RetrieveResult(ix, docs, query, top_k) ==
    LET r == SearchResult(ix, docs, Emb(query), top_k)
    IN  [status |-> r.status,
         results |-> [j \in 1..Len(r.results) |->
             [text |-> r.results[j].doc.text, metadata |-> r.results[j].doc.metadata,
              score |-> r.results[j].score]]]

\* simple pipeline, retrieve: a (doc.text, score) tuple per search result
XRetrieveResult(docs, query, top_k) ==
    LET r == XSearchResult(docs, Emb(query), top_k)
    IN  [status |-> r.status,
         results |-> [j \in 1..Len(r.results) |->
             [text |-> r.results[j].doc.text, score |-> r.results[j].score]]]

\* PDF pipeline, query: the fixed message when nothing was retrieved; otherwise the
\* context is built with metadata.get (AttributeError on None) and handed to the LLM
\* when there is one
QueryResult(ix, docs, question, top_k, use_llm) ==
    LET retrieved == RetrieveResult(ix, docs, question, top_k)
    IN  IF retrieved.status # "ok"
        THEN [status |-> "error", answer |-> "", llm |-> FALSE]
        ELSE IF retrieved.results = <<>>
        THEN [status |-> "ok", answer |-> "No relevant documents found.", llm |-> FALSE]
        ELSE IF \E j \in 1..Len(retrieved.results) : retrieved.results[j].metadata.isNone
        THEN [status |-> "error", answer |-> "", llm |-> FALSE]
        ELSE IF use_llm
        THEN [status |-> "ok", answer |-> "generate_answer", llm |-> TRUE]
        ELSE [status |-> "ok", answer |-> "Retrieved Context", llm |-> FALSE]

\* simple pipeline, query
XQueryResult(docs, question, top_k, use_llm) ==
    LET retrieved == XRetrieveResult(docs, question, top_k)
    IN  IF retrieved.status # "ok"
        THEN [status |-> "error", answer |-> "", llm |-> FALSE]
        ELSE IF retrieved.results = <<>>
        THEN [status |-> "ok",
              answer |-> "No relevant documents found in the knowledge base.",
              llm |-> FALSE]
        ELSE IF use_llm
        THEN [status |-> "ok", answer |-> "generate_with_context", llm |-> TRUE]
        ELSE [status |-> "ok", answer |-> "Retrieved Context", llm |-> FALSE]

\* the exact VectorStore defines __init__, add, search and _cosine_similarity and
\* nothing else: self.vector_store.count() raises AttributeError
XCountResult(docs) == [status |-> "error", value |-> 0 - 1]

\* simple pipeline, show_stats: prints vector_store.count() first
ShowStatsResult(docs) ==
    LET c == XCountResult(docs)
    IN  [status |-> c.status, printed |-> c.value]

----------------------------------------------------------------------------
(* Persistence: faiss.write_index / faiss.read_index and json.dump / json.load *)

\* a file of the directory: absent, present and unreadable (cut short), or whole
AbsentFile(empty) == [state |-> "absent", data |-> empty]
CorruptFile(empty) == [state |-> "corrupt", data |-> empty]
OkFile(data) == [state |-> "ok", data |-> data]

NoIndexData == [d |-> 0, ntotal |-> 0, codes |-> <<>>]

RECURSIVE Flatten(_)
Flatten(rows) == IF rows = <<>> THEN <<>> ELSE Head(rows) \o Flatten(Tail(rows))

\* faiss.write_index: the header (d, ntotal) and the ntotal * d stored floats in a row
WriteIndex(ix) == [d |-> ix.d, ntotal |-> ntotal(ix), codes |-> Flatten(ix.xb)]

\* faiss.read_index: vector i is the i-th run of d floats
ReadIndex(data) ==
    [d |-> data.d,
     xb |-> [i \in 1..data.ntotal |-> SubSeq(data.codes, (i - 1) * data.d + 1, i * data.d)]]

\* json.dump of one metadata value: None is null, a dict an object whose keys are
\* strings and whose int values are number literals
JsonOfMeta(m) ==
    IF m.isNone THEN [type |-> "null", members |-> <<>>]
    ELSE [type |-> "object",
          members |-> [i \in 1..Len(m.kv) |->
              [key |-> m.kv[i][1], type |-> "number", literal |-> m.kv[i][2]]]]

MetaOfJson(j) ==
    IF j.type = "null" THEN NoneMeta
    ELSE [isNone |-> FALSE,
          kv |-> [i \in 1..Len(j.members) |-> <<j.members[i].key, j.members[i].literal>>]]

\* (a changed json.dump: every record's metadata is written as null)
JsonDumpWithoutMetadata(docs) ==
    [i \in 1..Len(docs) |->
        [members |-> << [key |-> "text", string |-> docs[i].text],
                        [key |-> "metadata", value |-> JsonOfMeta(NoneMeta)] >>]]

\* json.dump(self.documents, f): an array with one {"text", "metadata"} object per record
JsonDump(docs) ==
    [i \in 1..Len(docs) |->
        [members |-> << [key |-> "text", string |-> docs[i].text],
                        [key |-> "metadata", value |-> JsonOfMeta(docs[i].metadata)] >>]]

\* json.load(f)
JsonLoad(array) ==
    [i \in 1..Len(array) |->
        [text |-> array[i].members[1].string,
         metadata |-> MetaOfJson(array[i].members[2].value)]]

\* the directory before anything was saved
NoDir == [exists |-> FALSE, faiss |-> AbsentFile(NoIndexData), docs |-> AbsentFile(<<>>)]

\* save: mkdir, then index.faiss, then documents.json
SaveResult(dir, ix, docs) ==
    [exists |-> TRUE, faiss |-> OkFile(WriteIndex(ix)), docs |-> OkFile(JsonDump(docs))]

\* the directory a save leaves behind when the process dies at `point`:
\*   1 after mkdir; 2 while index.faiss is written; 3 after index.faiss is closed
\*   and before documents.json is opened; 4 while documents.json is written
\* (open(..., "w") and faiss's fopen(..., "wb") empty the file first)
CrashPoints == {1, 2, 3, 4}

SaveCrashResult(dir, ix, docs, point) ==
    CASE point = 1 -> [dir EXCEPT !.exists = TRUE]
      [] point = 2 -> [dir EXCEPT !.exists = TRUE, !.faiss = CorruptFile(NoIndexData)]
      [] point = 3 -> [dir EXCEPT !.exists = TRUE, !.faiss = OkFile(WriteIndex(ix))]
      [] OTHER     -> [exists |-> TRUE, faiss |-> OkFile(WriteIndex(ix)),
                       docs |-> CorruptFile(<<>>)]

\* (a changed load: the store is emptied before the artifacts are read)
LoadResultClearingFirst(dir, ix, docs) ==
    IF dir.faiss.state # "ok"
    THEN [status |-> "error", index |-> EmptyIndex(ix.d), documents |-> <<>>]
    ELSE IF dir.docs.state # "ok"
    THEN [status |-> "error", index |-> ReadIndex(dir.faiss.data), documents |-> <<>>]
    ELSE [status |-> "ok", index |-> ReadIndex(dir.faiss.data),
          documents |-> JsonLoad(dir.docs.data)]

\* (a changed load: the artifacts are added to what the store holds)
LoadResultMerging(dir, ix, docs) ==
    IF dir.faiss.state # "ok"
    THEN [status |-> "error", index |-> ix, documents |-> docs]
    ELSE IF dir.docs.state # "ok"
    THEN [status |-> "error", index |-> IndexAdd(ix, ReadIndex(dir.faiss.data).xb),
          documents |-> docs]
    ELSE [status |-> "ok", index |-> IndexAdd(ix, ReadIndex(dir.faiss.data).xb),
          documents |-> docs \o JsonLoad(dir.docs.data)]

\* load: self.index is assigned as soon as read_index returns; open / json.load of
\* the sidecar come after it
LoadResult(dir, ix, docs) ==
    IF dir.faiss.state # "ok"
    THEN [status |-> "error", index |-> ix, documents |-> docs]
    ELSE IF dir.docs.state # "ok"
    THEN [status |-> "error", index |-> ReadIndex(dir.faiss.data), documents |-> docs]
    ELSE [status |-> "ok", index |-> ReadIndex(dir.faiss.data),
          documents |-> JsonLoad(dir.docs.data)]

\* json.load builds a new dict for every object of the array
FreshObjects(docs) == [i \in 1..Len(docs) |-> i]

\* history: which state the directory holds in full
NoSave == [whole |-> FALSE, index |-> EmptyIndex(0), documents |-> <<>>]
Whole(ix, docs) == [whole |-> TRUE, index |-> ix, documents |-> docs]

\* after an interrupted save of (ix, docs) left `dir`: the directory holds the new
\* state in full, or still the old one, or neither
SavedAfterCrash(old, dir, ix, docs) ==
    IF dir = SaveResult(dir, ix, docs) THEN Whole(ix, docs)
    ELSE IF old.whole /\ dir = SaveResult(dir, old.index, old.documents) THEN old
    ELSE NoSave

----------------------------------------------------------------------------
(* load_pdf: exercise_2_pdf-rag-system/src/pdf_loader.py *)

\* load_pdf not running
NoPdf ==
    [pc |-> "idle", pages |-> <<>>, chunk_size |-> 0, overlap |-> 0, page_num |-> 0,
     text |-> <<>>, start |-> 0, chunks |-> <<>>, chunk_index |-> 0]

\* page.extract_text() of the pages a PDF can have: a text is its characters in a
\* row, the empty one standing for None and ""
PageTexts ==
    { <<>>,
      <<"x", " ", "x">>,
      <<" ", " ", "x">>,
      <<"x", "x", " ", " ">> }

Pdfs == UNION {[1..n -> PageTexts] : n \in 1..MaxPages}

\* the longest page, and the most iterations load_pdf is followed for (a call with
\* overlap < chunk_size needs fewer)
MaxPageLen == CHOOSE n \in 0..10 : /\ \A t \in PageTexts : Len(t) <= n
                                    /\ \E u \in PageTexts : Len(u) = n
ChunkCap == MaxPages * MaxPageLen + 1

\* text[start:end] for 0 <= start
Slice(text, start, end) == SubSeq(text, start + 1, Min(end, Len(text)))

\* str.strip()
RECURSIVE LStrip(_)
LStrip(t) == IF t # <<>> /\ Head(t) = " " THEN LStrip(Tail(t)) ELSE t
RECURSIVE RStrip(_)
RStrip(t) == IF t # <<>> /\ t[Len(t)] = " " THEN RStrip(SubSeq(t, 1, Len(t) - 1)) ELSE t
Strip(t) == RStrip(LStrip(t))

\* load_pdf entered with its arguments: chunks = [], chunk_index = 0
PdfCall(pages, chunk_size, overlap) ==
    [pc |-> "page", pages |-> pages, chunk_size |-> chunk_size, overlap |-> overlap,
     page_num |-> 0, text |-> <<>>, start |-> 0, chunks |-> <<>>, chunk_index |-> 0]

\* (a changed loop body: the next chunk starts where this one started)
ChunkStepStandingStill(p) ==
    LET end == p.start + p.chunk_size
        chunk_text == Strip(Slice(p.text, p.start, end))
    IN  [p EXCEPT
           !.chunks = IF chunk_text # <<>>
                      THEN Append(@, [text |-> chunk_text, page |-> p.page_num,
                                      chunk |-> p.chunk_index])
                      ELSE @,
           !.chunk_index = IF chunk_text # <<>> THEN @ + 1 ELSE @,
           !.start = end - p.chunk_size]

\* one iteration of `while start < len(text)`
ChunkStep(p) ==
    LET end == p.start + p.chunk_size
        chunk_text == Strip(Slice(p.text, p.start, end))
    IN  [p EXCEPT
           !.chunks = IF chunk_text # <<>>
                      THEN Append(@, [text |-> chunk_text, page |-> p.page_num,
                                      chunk |-> p.chunk_index])
                      ELSE @,
           !.chunk_index = IF chunk_text # <<>> THEN @ + 1 ELSE @,
           !.start = end - p.overlap]

\* the for loop takes the next page: a page without text is skipped, after the last
\* page the chunks are returned
PageStep(p) ==
    IF p.page_num = Len(p.pages) THEN [p EXCEPT !.pc = "done"]
    ELSE LET text == p.pages[p.page_num + 1]
         IN  IF text = <<>>
             THEN [p EXCEPT !.page_num = @ + 1, !.text = text]
             ELSE [p EXCEPT !.page_num = @ + 1, !.text = text, !.start = 0,
                            !.pc = "chunk"]

----------------------------------------------------------------------------
(* The state machine *)

\* the record of a call: which one, with what, and how it ended
\* (before: what count() gave when the call started)
\* (printed, answer, llm: the number show_stats prints, the kind of text query
\* returns, whether the LLM was called)
Ret(op, status, before) ==
    [op |-> op, status |-> status, before |-> before, id |-> 0 - 1, results |-> <<>>,
     q |-> "", k |-> 0, texts |-> <<>>, metas |-> NoMetas,
     printed |-> 0 - 1, answer |-> "", llm |-> FALSE]

\* the arguments drawn for the calls
NormTexts == {"A", "C", "Z", "W"}
PersistTexts == {"A", "B"}
QueryTexts == {"A", "C", "Z"}
TopKs == {0 - 1, 0, 1, 2, MaxDocs + 1}
PersistQueries == {"A", "Z"}
PersistTopKs == {1, MaxDocs}
Dims == {Dim, Len(Emb("W"))}
RetrieveTopKs == {2}
Questions == {"A", "Z"}
SameLength(texts) == \A i, j \in 1..Len(texts) : Len(Emb(texts[i])) = Len(Emb(texts[j]))
Batches(T) == {b \in UNION {[1..n -> T] : n \in 1..MaxVecs} : SameLength(b)}
Embeddings(texts) == [i \in 1..Len(texts) |-> Emb(texts[i])]
MetasOf(texts, m) == MetaList([i \in 1..m |-> Meta(texts[i])])

\* VectorStore(dimension=...) of the normalized index, VectorStore() of the exact one
Construct(v) ==
    /\ variant = v
    /\ dimension = Dim
    /\ index = EmptyIndex(Dim)
    /\ documents = <<>>
    /\ xdocuments = <<>>
    /\ next_id = 0
    /\ fs = NoDir
    /\ saved = NoSave
    /\ issued = {}
    /\ metaobj = <<>>
    /\ pdf = NoPdf
    /\ ret = Ret("init", "ok", 0)

Init == \E v \in {"exact", "normalized"} : Construct(v)

(* normalized index *)

Add(t) ==
    /\ variant = "normalized"
    /\ ntotal(index) < MaxVecs /\ Count(documents) < MaxVecs
    /\ LET r == AddResult(index, documents, t, Emb(t), Meta(t))
       IN  /\ index' = r.index
           /\ documents' = r.documents
           /\ issued' = IF r.status = "ok" THEN issued \cup {r.id} ELSE issued
           /\ metaobj' = IF r.status = "ok" THEN Append(metaobj, Count(documents) + 1)
                         ELSE metaobj
           /\ ret' = [Ret("add", r.status, Count(documents)) EXCEPT !.id = r.id, !.texts = <<t>>]
    /\ UNCHANGED <<pdf, variant, dimension, xdocuments, next_id, fs, saved>>

AddBatch(texts, metadatas) ==
    /\ variant = "normalized"
    /\ ntotal(index) + Len(texts) <= MaxVecs /\ Count(documents) + Len(texts) <= MaxVecs
    /\ LET r == AddBatchResult(index, documents, texts, Embeddings(texts), metadatas)
       IN  /\ index' = r.index
           /\ documents' = r.documents
           /\ metaobj' = IF r.status = "ok"
                         THEN metaobj \o BatchObjects(documents, texts, metadatas)
                         ELSE metaobj
           /\ ret' = [Ret("add_batch", r.status, Count(documents)) EXCEPT !.texts = texts, !.metas = metadatas]
    /\ UNCHANGED <<pdf, variant, dimension, xdocuments, next_id, fs, saved, issued>>

Search(q, k) ==
    /\ variant = "normalized"
    /\ LET r == SearchResult(index, documents, Emb(q), k)
       IN  ret' = [Ret("search", r.status, Count(documents)) EXCEPT !.results = r.results, !.q = q, !.k = k]
    /\ UNCHANGED <<pdf, variant, dimension, index, documents, xdocuments, next_id, fs, saved,
                 issued, metaobj>>

(* exact index *)

XAdd(t) ==
    /\ variant = "exact"
    /\ Len(xdocuments) < MaxDocs
    /\ LET r == XAddResult(xdocuments, next_id, t, Emb(t), Meta(t))
       IN  /\ xdocuments' = r.documents
           /\ next_id' = r.next_id
           /\ issued' = issued \cup {r.id}
           /\ ret' = [Ret("add", "ok", Len(xdocuments)) EXCEPT !.id = r.id, !.texts = <<t>>]
    /\ UNCHANGED <<pdf, variant, dimension, index, documents, fs, saved, metaobj>>

XSearch(q, k) ==
    /\ variant = "exact"
    /\ LET r == XSearchResult(xdocuments, Emb(q), k)
       IN  ret' = [Ret("search", r.status, Len(xdocuments)) EXCEPT !.results = r.results, !.q = q, !.k = k]
    /\ UNCHANGED <<pdf, variant, dimension, index, documents, xdocuments, next_id, fs, saved,
                 issued, metaobj>>

\* the caller of search changes the metadata of the record at position i
SetMetadata(i) ==
    /\ variant = "normalized"
    /\ i \in 1..Count(documents)
    /\ ~documents[i].metadata.isNone
    /\ \A n \in 1..Len(documents[i].metadata.kv) : documents[i].metadata.kv[n][1] # "seen"
    /\ documents' = SetMetadataResult(documents, metaobj, i)
    /\ ret' = [Ret("set_metadata", "ok", Count(documents)) EXCEPT !.id = i - 1]
    /\ UNCHANGED <<pdf, variant, dimension, index, xdocuments, next_id, fs, saved, issued,
                 metaobj>>

(* the pipelines *)

Retrieve(q, k) ==
    /\ variant = "normalized"
    /\ LET r == RetrieveResult(index, documents, q, k)
       IN  ret' = [Ret("retrieve", r.status, Count(documents)) EXCEPT !.results = r.results, !.q = q, !.k = k]
    /\ UNCHANGED <<pdf, variant, dimension, index, documents, xdocuments, next_id, fs, saved,
                 issued, metaobj>>

XRetrieve(q, k) ==
    /\ variant = "exact"
    /\ LET r == XRetrieveResult(xdocuments, q, k)
       IN  ret' = [Ret("retrieve", r.status, Len(xdocuments)) EXCEPT !.results = r.results, !.q = q, !.k = k]
    /\ UNCHANGED <<pdf, variant, dimension, index, documents, xdocuments, next_id, fs, saved,
                 issued, metaobj>>

Query(q, use_llm) ==
    /\ variant = "normalized"
    /\ LET r == QueryResult(index, documents, q, DefaultTopK, use_llm)
       IN  ret' = [Ret("query", r.status, Count(documents)) EXCEPT !.answer = r.answer, !.llm = r.llm, !.q = q, !.k = DefaultTopK]
    /\ UNCHANGED <<pdf, variant, dimension, index, documents, xdocuments, next_id, fs, saved,
                 issued, metaobj>>

XQuery(q, use_llm) ==
    /\ variant = "exact"
    /\ LET r == XQueryResult(xdocuments, q, DefaultTopK, use_llm)
       IN  ret' = [Ret("query", r.status, Len(xdocuments)) EXCEPT !.answer = r.answer, !.llm = r.llm, !.q = q, !.k = DefaultTopK]
    /\ UNCHANGED <<pdf, variant, dimension, index, documents, xdocuments, next_id, fs, saved,
                 issued, metaobj>>

ShowStats ==
    /\ variant = "exact"
    /\ LET r == ShowStatsResult(xdocuments)
       IN  ret' = [Ret("show_stats", r.status, Len(xdocuments)) EXCEPT !.printed = r.printed]
    /\ UNCHANGED <<pdf, variant, dimension, index, documents, xdocuments, next_id, fs, saved,
                 issued, metaobj>>

\* count() of the normalized index
GetCount ==
    /\ variant = "normalized"
    /\ ret' = [Ret("count", "ok", Count(documents)) EXCEPT !.printed = Count(documents)]
    /\ UNCHANGED <<pdf, variant, dimension, index, documents, xdocuments, next_id, fs, saved,
                 issued, metaobj>>

(* persistence of the normalized index *)

\* a new process, or a new store in the same one: VectorStore(dimension=...)
New ==
    /\ variant = "normalized"
    /\ dimension' = Dim
    /\ index' = EmptyIndex(Dim)
    /\ documents' = <<>>
    /\ issued' = {}
    /\ metaobj' = <<>>
    /\ ret' = Ret("new", "ok", Count(documents))
    /\ UNCHANGED <<pdf, variant, xdocuments, next_id, fs, saved>>

\* VectorStore(dimension=d) built by a caller that does not go through RAGPipeline
NewOfDimension(d) ==
    /\ variant = "normalized"
    /\ dimension' = d
    /\ index' = EmptyIndex(d)
    /\ documents' = <<>>
    /\ issued' = {}
    /\ metaobj' = <<>>
    /\ ret' = Ret("new", "ok", Count(documents))
    /\ UNCHANGED <<pdf, variant, xdocuments, next_id, fs, saved>>

Save ==
    /\ variant = "normalized"
    /\ fs' = SaveResult(fs, index, documents)
    /\ saved' = Whole(index, documents)
    /\ ret' = Ret("save", "ok", Count(documents))
    /\ UNCHANGED <<pdf, variant, dimension, index, documents, xdocuments, next_id, issued,
                 metaobj>>

\* the process dies inside save; the next state is the restarted program's
SaveCrash(point) ==
    /\ variant = "normalized"
    /\ fs' = SaveCrashResult(fs, index, documents, point)
    /\ saved' = SavedAfterCrash(saved, fs', index, documents)
    /\ dimension' = Dim
    /\ index' = EmptyIndex(Dim)
    /\ documents' = <<>>
    /\ issued' = {}
    /\ metaobj' = <<>>
    /\ ret' = [Ret("crash", "error", Count(documents)) EXCEPT !.k = point]
    /\ UNCHANGED <<pdf, variant, xdocuments, next_id>>

Load ==
    /\ variant = "normalized"
    /\ LET r == LoadResult(fs, index, documents)
       IN  /\ index' = r.index
           /\ documents' = r.documents
           /\ metaobj' = IF r.status = "ok" THEN FreshObjects(r.documents) ELSE metaobj
           /\ ret' = Ret("load", r.status, Count(documents))
    /\ UNCHANGED <<pdf, variant, dimension, xdocuments, next_id, fs, saved, issued>>

Next ==
    \/ \E t \in NormTexts : Add(t)
    \/ \E texts \in Batches(NormTexts) :
         \/ AddBatch(texts, NoMetas)
         \/ \E m \in 0..Len(texts) : AddBatch(texts, MetasOf(texts, m))
    \/ \E q \in QueryTexts, k \in TopKs : Search(q, k)
    \/ \E t \in Texts : XAdd(t)
    \/ \E q \in QueryTexts, k \in TopKs : XSearch(q, k)
    \/ \E q \in QueryTexts, k \in RetrieveTopKs : Retrieve(q, k)
    \/ \E q \in QueryTexts, k \in RetrieveTopKs : XRetrieve(q, k)
    \/ \E q \in Questions, use_llm \in BOOLEAN : Query(q, use_llm)
    \/ \E q \in Questions, use_llm \in BOOLEAN : XQuery(q, use_llm)
    \/ ShowStats

\* the in-memory interface of the two indexes
Spec == Init /\ [][Next]_vars

NextPersist ==
    \/ New
    \/ \E t \in PersistTexts : Add(t)
    \/ \E texts \in Batches(PersistTexts) : AddBatch(texts, MetasOf(texts, Len(texts)))
    \/ Save
    \/ \E point \in CrashPoints : SaveCrash(point)
    \/ Load

\* the normalized index with its directory
SpecPersist == Construct("normalized") /\ [][NextPersist]_vars

(* load_pdf *)

storeVars ==
    <<variant, dimension, index, documents, xdocuments, next_id, fs, saved, issued,
      metaobj, ret>>

\* for page_num, page in enumerate(pdf.pages, start=1): text = page.extract_text()
PdfPage ==
    /\ pdf.pc = "page"
    /\ pdf' = PageStep(pdf)
    /\ UNCHANGED storeVars

\* the body of the while loop
PdfChunk ==
    /\ pdf.pc = "chunk"
    /\ pdf.start < Len(pdf.text)
    /\ Len(pdf.chunks) < ChunkCap
    /\ pdf' = ChunkStep(pdf)
    /\ UNCHANGED storeVars

\* the while condition fails: on to the next page
PdfPageEnd ==
    /\ pdf.pc = "chunk"
    /\ pdf.start >= Len(pdf.text)
    /\ pdf' = [pdf EXCEPT !.pc = "page"]
    /\ UNCHANGED storeVars

\* load_pdf(pdf_path, chunk_size, overlap) called on an existing PDF
InitPdf ==
    /\ variant = "normalized"
    /\ dimension = Dim
    /\ index = EmptyIndex(Dim)
    /\ documents = <<>>
    /\ xdocuments = <<>>
    /\ next_id = 0
    /\ fs = NoDir
    /\ saved = NoSave
    /\ issued = {}
    /\ metaobj = <<>>
    /\ ret = Ret("init", "ok", 0)
    /\ \E pages \in Pdfs, chunk_size \in 1..MaxChunkSize :
         \E overlap \in 0..chunk_size : pdf = PdfCall(pages, chunk_size, overlap)

NextPdf == PdfPage \/ PdfChunk \/ PdfPageEnd

\* load_pdf runs on: the interpreter takes its next step whenever there is one
SpecPdf == InitPdf /\ [][NextPdf]_vars /\ WF_vars(NextPdf)

NextOwn ==
    \/ \E t \in NormTexts : Add(t)
    \/ \E texts \in Batches(NormTexts) :
         \/ AddBatch(texts, NoMetas)
         \/ AddBatch(texts, MetasOf(texts, Len(texts)))
    \/ \E q \in QueryTexts, k \in TopKs : Search(q, k)
    \/ \E i \in 1..MaxVecs : SetMetadata(i)

\* the normalized index with a caller that writes to the records search gave it
SpecOwn == Construct("normalized") /\ [][NextOwn]_vars

NextAppend ==
    \/ \E t \in PersistTexts : Add(t)
    \/ \E texts \in Batches(PersistTexts) : AddBatch(texts, MetasOf(texts, Len(texts)))
    \/ \E q \in PersistQueries, k \in PersistTopKs : Search(q, k)
    \/ GetCount
    \/ Save
    \/ Load
    \/ \E t \in PersistTexts : XAdd(t)
    \/ \E q \in PersistQueries, k \in PersistTopKs : XSearch(q, k)

\* both indexes with every operation that is to leave stored records alone
SpecAppend == Init /\ [][NextAppend]_vars

NextRecover ==
    \/ \E t \in PersistTexts : Add(t)
    \/ Save
    \/ \E point \in CrashPoints : SaveCrash(point)
    \/ Load
    \/ \E q \in PersistQueries, k \in PersistTopKs : Search(q, k)
    \/ \E q \in Questions, use_llm \in BOOLEAN : Query(q, use_llm)
    \/ \E d \in Dims : NewOfDimension(d)

\* the normalized index searched after its directory was saved to and loaded from
SpecRecover == Construct("normalized") /\ [][NextRecover]_vars

----------------------------------------------------------------------------
(* Properties *)

\* the embeddings of a batch have the dimension of the index
BatchFits(texts) == \A i \in 1..Len(texts) : Len(Emb(texts[i])) = index.d

\* C1: add_batch with fewer metadata entries than texts is not an error and stores
\* one record per text, in order; the records beyond the metadata entries hold an
\* empty mapping, so count() grows by the number of texts.
C1_ShortMetadatasStoreEveryText ==
    (/\ variant = "normalized"
     /\ ret.op = "add_batch"
     /\ ~ret.metas.isNone
     /\ Len(ret.metas.items) < Len(ret.texts)
     /\ BatchFits(ret.texts))
    => /\ ret.status = "ok"
       /\ Count(documents) = ret.before + Len(ret.texts)
       /\ \A i \in 1..Len(ret.texts) :
            /\ documents[ret.before + i].text = ret.texts[i]
            /\ documents[ret.before + i].metadata =
                 IF i <= Len(ret.metas.items) THEN ret.metas.items[i] ELSE EmptyDict

\* C2: the record list and the similarity structure stay position-aligned: there are
\* as many records as stored vectors, and record i is the text inserted with vector i.
C2_RecordsAlignedWithVectors ==
    variant = "normalized"
    => /\ Count(documents) = ntotal(index)
       /\ \A i \in 1..Count(documents) : index.xb[i] = Normalize(Emb(documents[i].text))

\* C3: a load that fails (an artifact missing or unreadable) leaves the similarity
\* structure and the record list exactly as they were before the call.
C3_FailedLoadChangesNothing ==
    [][(Load /\ ret'.status = "error") => UNCHANGED <<index, documents>>]_vars

\* C4: load on a path that does not exist raises and leaves vectors and records
\* unchanged, whatever they were.
C4_LoadOfMissingPathRaises ==
    [][(Load /\ ~fs.exists) => (ret'.status = "error" /\ UNCHANGED <<index, documents>>)]_vars

C4_Witness ==
    /\ ret.op = "load" /\ ret.status = "error"
    /\ ~fs.exists
    /\ ntotal(index) > 0 /\ Count(documents) > 0

\* C5: whatever point a save was interrupted at, a load that succeeds yields in full
\* the state of one save (the old one or the new one), never the vectors of one save
\* with the records of another.
C5_LoadYieldsTheStateOfOneSave ==
    (ret.op = "load" /\ ret.status = "ok")
    => (saved.whole /\ index = saved.index /\ documents = saved.documents)

\* C6: save then load gives back the saved index: the same count(), the same texts
\* and metadata in the same order, the same vectors, and so the same ranked result
\* of every search.
C6_SaveLoadRoundTrip ==
    (ret.op = "load" /\ ret.status = "ok" /\ saved.whole)
    => /\ Count(documents) = Count(saved.documents)
       /\ documents = saved.documents
       /\ index = saved.index
       /\ \A q \in QueryTexts, k \in TopKs :
            SearchResult(index, documents, Emb(q), k)
              = SearchResult(saved.index, saved.documents, Emb(q), k)

C6_Witness ==
    /\ ret.op = "load" /\ ret.status = "ok" /\ saved.whole
    /\ ret.before = 0
    /\ Count(documents) = 2 /\ documents[1] # documents[2]
    /\ SearchResult(index, documents, Emb("A"), 2).results # <<>>

\* C7: a successful load replaces: afterwards the vectors and the records are exactly
\* those of the artifacts at the path, in their saved order, whatever the index held.
C7_LoadReplaces ==
    (ret.op = "load" /\ ret.status = "ok")
    => /\ index = ReadIndex(fs.faiss.data)
       /\ documents = JsonLoad(fs.docs.data)
       /\ Count(documents) = Len(fs.docs.data)
       /\ ntotal(index) = fs.faiss.data.ntotal

C7_Witness ==
    /\ ret.op = "load" /\ ret.status = "ok"
    /\ ret.before > Count(documents)
    /\ Count(documents) > 0

\* add called once per element of the batch, in order, stopping at the first that raises
RECURSIVE AddEach(_, _, _, _, _, _)
AddEach(ix, docs, texts, embeddings, metadatas, n) ==
    IF n = 0 THEN [status |-> "ok", index |-> ix, documents |-> docs]
    ELSE LET p == AddEach(ix, docs, texts, embeddings, metadatas, n - 1)
             r == AddResult(p.index, p.documents, texts[n], embeddings[n], metadatas[n])
         IN  IF p.status = "ok"
             THEN [status |-> r.status, index |-> r.index, documents |-> r.documents]
             ELSE p

\* C8: add_batch with texts, embeddings and metadatas of one length leaves the index
\* in the state that add, called once per element in order, leaves it in.
C8_BatchEqualsAddPerElement ==
    [][\A texts \in Batches(NormTexts) :
         AddBatch(texts, MetasOf(texts, Len(texts)))
         => LET each == AddEach(index, documents, texts, Embeddings(texts),
                                MetasOf(texts, Len(texts)).items, Len(texts))
            IN  index' = each.index /\ documents' = each.documents]_vars

\* the number of records of the running variant's index, and the length of the
\* embeddings it holds (for a non-empty index)
StoreCount == IF variant = "exact" THEN Len(xdocuments) ELSE Count(documents)
StoredLength == IF variant = "exact" THEN Len(xdocuments[1].embedding) ELSE index.d

\* C9: in both variants an embedding of another length than the index's is rejected
\* and nothing is stored, so all stored embeddings of an index have one length.
C9_StoredEmbeddingsHaveOneLength ==
    /\ \A i, j \in 1..Len(xdocuments) :
         Len(xdocuments[i].embedding) = Len(xdocuments[j].embedding)
    /\ \A i \in 1..ntotal(index) : Len(index.xb[i]) = index.d
    /\ (ret.op = "add" /\ ret.before > 0 /\ Len(Emb(ret.texts[1])) # StoredLength)
         => (ret.status = "error" /\ StoreCount = ret.before)

\* the query has the length of the stored embeddings
QueryFits(q) ==
    IF variant = "exact"
    THEN \A i \in 1..Len(xdocuments) : Len(xdocuments[i].embedding) = Len(Emb(q))
    ELSE Len(Emb(q)) = index.d

\* C10: in both variants search with top_k zero or negative on a non-empty index
\* returns an empty list and does not raise.
C10_NoResultsRequested ==
    (ret.op = "search" /\ ret.k <= 0 /\ ret.before > 0 /\ QueryFits(ret.q))
    => (ret.status = "ok" /\ ret.results = <<>>)

\* C11: in both variants the list search returns has at most top_k elements (none for
\* a top_k below one) and at most count() elements.
C11_AtMostTopKAndCount ==
    (ret.op = "search" /\ ret.status = "ok")
    => /\ Len(ret.results) <= Max(ret.k, 0)
       /\ Len(ret.results) <= StoreCount

\* C12: in both variants the list search returns is ordered by non-increasing score:
\* no result has a score greater than a result before it.
C12_ResultsByDescendingScore ==
    (ret.op = "search" /\ ret.status = "ok")
    => \A i, j \in 1..Len(ret.results) :
         i < j => /\ ~ret.results[i].score.nan
                  /\ ~ret.results[j].score.nan
                  /\ ret.results[i].score.v >= ret.results[j].score.v

C12_Witness ==
    /\ variant = "normalized"
    /\ ret.op = "search" /\ ret.status = "ok"
    /\ Len(ret.results) >= 2
    /\ ret.results[1].score.v > ret.results[2].score.v

\* 1 / sqrt(2), the similarity of [1,0] and [1,1] (0.707)
InvSqrt2 == SqrtQuot(Scale * Scale, 2, 0, Scale)

\* C13: exact index: search(q, k) with k >= 1 and a query of the stored embeddings'
\* length returns min(k, n) distinct stored records, each with its cosine similarity
\* to q, and no record left out scores strictly higher than a record returned. With
\* A = [1,0], B = [0,1], C = [1,1] stored, query [1,0] and top_k = 2 give A (1.0)
\* then C (0.707).
C13_ExactTopK ==
    (/\ variant = "exact"
     /\ ret.op = "search"
     /\ ret.k >= 1
     /\ ret.before > 0
     /\ QueryFits(ret.q))
    => /\ ret.status = "ok"
       /\ Len(ret.results) = Min(ret.k, Len(xdocuments))
       /\ \A j \in 1..Len(ret.results) :
            /\ \E i \in 1..Len(xdocuments) : ret.results[j].doc = xdocuments[i]
            /\ ret.results[j].score
                 = CosineSimilarity(Emb(ret.q), ret.results[j].doc.embedding)
            /\ \A j2 \in 1..Len(ret.results) :
                 j2 # j => ret.results[j2].doc # ret.results[j].doc
       /\ \A i \in 1..Len(xdocuments) :
            (\A j \in 1..Len(ret.results) : ret.results[j].doc # xdocuments[i])
            => \A j \in 1..Len(ret.results) :
                 CosineSimilarity(Emb(ret.q), xdocuments[i].embedding).v
                   <= ret.results[j].score.v
       /\ ([i \in 1..Len(xdocuments) |-> xdocuments[i].text] = <<"A", "B", "C">>
            /\ ret.q = "A" /\ ret.k = 2)
           => [j \in 1..Len(ret.results) |->
                 <<ret.results[j].doc.text, ret.results[j].score>>]
                = << <<"A", F(Scale)>>, <<"C", F(InvSqrt2)>> >>

C13_Witness ==
    /\ variant = "exact"
    /\ ret.op = "search" /\ ret.status = "ok"
    /\ [i \in 1..Len(xdocuments) |-> xdocuments[i].text] = <<"A", "B", "C">>
    /\ ret.q = "A" /\ ret.k = 2
    /\ Len(ret.results) = 2

\* C14: in both variants search on an index with zero records returns an empty list
\* and does not raise, for any query (a zero-norm one too) and any top_k.
C14_EmptyIndexSearch ==
    (ret.op = "search" /\ StoreCount = 0)
    => (ret.status = "ok" /\ ret.results = <<>>)

\* C15: the ids add returns on one index instance are non-negative and strictly
\* increasing over any sequence of add, add_batch, search, save and load: an id is
\* never returned twice.
C15_AddIdsNeverRepeat ==
    [][\A t \in Texts :
         ((Add(t) \/ XAdd(t)) /\ ret'.status = "ok")
         => (ret'.id >= 0 /\ \A i \in issued : ret'.id > i)]_vars

\* C16: exact index: each add appends exactly one record at the end, advances the
\* identity counter by one and returns the new record's id; so next_id is always the
\* number of stored records and the record at position i has id i.
C16_ExactAddAdvancesCounter ==
    variant = "exact"
    => /\ next_id = Len(xdocuments)
       /\ \A i \in 1..Len(xdocuments) : xdocuments[i].id = i - 1
       /\ ret.op = "add"
            => /\ ret.status = "ok"
               /\ Len(xdocuments) = ret.before + 1
               /\ ret.id = xdocuments[Len(xdocuments)].id
               /\ xdocuments[Len(xdocuments)].text = ret.texts[1]
               /\ xdocuments[Len(xdocuments)].embedding = Emb(ret.texts[1])

C16_Witness ==
    /\ variant = "exact"
    /\ ret.op = "add" /\ ret.status = "ok"
    /\ ret.id = 1
    /\ Len(xdocuments) = 2

\* the all-zero vector of n components
ZeroVector(n) == [i \in 1..n |-> F(0)]

\* the normalized index holds one record per vector, record i with the vector of its text
Aligned ==
    /\ Count(documents) = ntotal(index)
    /\ \A i \in 1..Count(documents) : index.xb[i] = Normalize(Emb(documents[i].text))

\* C17: normalized index: add of a zero-norm embedding does not fail and stores the
\* all-zero vector; a zero-norm query is normalized by the same rule, so search with
\* it does not fail and every record it returns has the score 0.
C17_ZeroNormStoredAsZeros ==
    /\ (/\ variant = "normalized"
        /\ ret.op = "add"
        /\ Norm2(Emb(ret.texts[1])) = 0
        /\ Len(Emb(ret.texts[1])) = index.d)
       => /\ ret.status = "ok"
          /\ ntotal(index) = ret.before + 1
          /\ index.xb[ntotal(index)] = ZeroVector(index.d)
    /\ (/\ variant = "normalized"
        /\ ret.op = "search"
        /\ Norm2(Emb(ret.q)) = 0
        /\ QueryFits(ret.q)
        /\ ret.k >= 1
        /\ ret.before > 0
        /\ Aligned)
       => /\ ret.status = "ok"
          /\ Len(ret.results) = Min(ret.k, ret.before)
          /\ \A j \in 1..Len(ret.results) : ret.results[j].score = F(0)

\* C18: exact index: the similarity of two vectors is exactly 0.0 when either has
\* zero norm; search with a zero-norm query or over a zero-norm stored embedding
\* does not raise and gives that pair the score 0.0.
C18_ZeroNormScoresZero ==
    /\ \A a, b \in Texts :
         (Len(Emb(a)) = Len(Emb(b)) /\ (Norm2(Emb(a)) = 0 \/ Norm2(Emb(b)) = 0))
         => /\ CosineSimilarity(Emb(a), Emb(b)) = F(0)
            /\ Similarity(Emb(a), Emb(b)) = F(0)
    /\ (/\ variant = "exact"
        /\ ret.op = "search"
        /\ ret.before > 0
        /\ QueryFits(ret.q))
       => /\ ret.status = "ok"
          /\ \A j \in 1..Len(ret.results) :
               (Norm2(Emb(ret.q)) = 0 \/ Norm2(ret.results[j].doc.embedding) = 0)
               => ret.results[j].score = F(0)

C18_Witness ==
    /\ variant = "exact"
    /\ ret.op = "search" /\ ret.status = "ok"
    /\ Norm2(Emb(ret.q)) = 0
    /\ \E j \in 1..Len(ret.results) : Norm2(ret.results[j].doc.embedding) = 0
    /\ \E j \in 1..Len(ret.results) : Norm2(ret.results[j].doc.embedding) # 0

\* the exact index holding the un-normalized vectors of the same records
AsExact(docs) ==
    [i \in 1..Len(docs) |->
        [id |-> i - 1, text |-> docs[i].text, embedding |-> Emb(docs[i].text),
         metadata |-> docs[i].metadata]]

\* two scores equal within one unit of the resolution
Close(a, b) == ~a.nan /\ ~b.nan /\ a.v - b.v \in {0 - 1, 0, 1}

\* C19: for the same inserted vectors and the same query the normalized index's
\* search returns the scores the exact index computes as cosine similarities, and
\* the records in the same rank order when the scores are distinct.
C19_NormalizedScoresAreCosine ==
    (/\ variant = "normalized"
     /\ ret.op = "search"
     /\ ret.k >= 1
     /\ ret.before > 0
     /\ QueryFits(ret.q)
     /\ Aligned)
    => LET x == XSearchResult(AsExact(documents), Emb(ret.q), ret.k).results
       IN  /\ ret.status = "ok"
           /\ Len(ret.results) = Len(x)
           /\ \A j \in 1..Len(ret.results) : Close(ret.results[j].score, x[j].score)
           /\ (\A i, j \in 1..Len(x) : i # j => x[i].score # x[j].score)
              => \A j \in 1..Len(ret.results) : ret.results[j].doc.text = x[j].doc.text

\* C20: every record stored in either index has a metadata value that is a mapping
\* (empty when none was supplied), never null, whatever add or add_batch was given.
C20_MetadataNeverNull ==
    /\ \A i \in 1..Len(documents) : ~documents[i].metadata.isNone
    /\ \A i \in 1..Len(xdocuments) : ~xdocuments[i].metadata.isNone

\* C21: exact index: count() is available and gives the number of stored records,
\* which is the number of add calls completed; show_stats of the simple pipeline
\* prints exactly that number.
C21_ExactCountIsReported ==
    (variant = "exact" /\ ret.op = "show_stats")
    => /\ ret.status = "ok"
       /\ ret.printed = Len(xdocuments)
       /\ ret.printed = Cardinality(issued)

\* s is the beginning of t
IsPrefix(s, t) == Len(s) <= Len(t) /\ SubSeq(t, 1, Len(s)) = s

\* C22: both variants are append-only: add and add_batch leave every stored record
\* (position, text, metadata, embedding) as it was, and search, count and save leave
\* the whole index state unchanged; only load replaces records.
C22_AppendOnly ==
    [][/\ ret'.op \in {"add", "add_batch"}
          => /\ IsPrefix(documents, documents')
             /\ IsPrefix(index.xb, index'.xb)
             /\ index'.d = index.d
             /\ IsPrefix(xdocuments, xdocuments')
       /\ ret'.op \in {"search", "count", "save"}
          => UNCHANGED <<dimension, index, documents, xdocuments, next_id>>]_vars

C22_Witness ==
    /\ variant = "normalized"
    /\ ret.op = "add_batch" /\ ret.status = "ok"
    /\ ret.before >= 1
    /\ Count(documents) > ret.before
    /\ saved.whole
    /\ documents[1].text # documents[Count(documents)].text

\* C23: exact index: records of equal similarity to the query appear in the result in
\* insertion order, and when top_k cuts through a group of equal scores the earliest
\* inserted records of the group are the ones kept.
C23_TiesInInsertionOrder ==
    (/\ variant = "exact"
     /\ ret.op = "search"
     /\ ret.before > 0
     /\ QueryFits(ret.q))
    => /\ ret.status = "ok"
       /\ \A i, j \in 1..Len(ret.results) :
            (i < j /\ ret.results[i].score = ret.results[j].score)
            => ret.results[i].doc.id < ret.results[j].doc.id
       /\ \A j \in 1..Len(ret.results) : \A i \in 1..Len(xdocuments) :
            (/\ \A j2 \in 1..Len(ret.results) : ret.results[j2].doc # xdocuments[i]
             /\ CosineSimilarity(Emb(ret.q), xdocuments[i].embedding) = ret.results[j].score)
            => xdocuments[i].id > ret.results[j].doc.id

C23_Witness ==
    /\ variant = "exact"
    /\ ret.op = "search" /\ ret.status = "ok"
    /\ ret.k = 2
    /\ Len(xdocuments) = 3
    /\ Len(ret.results) = 2
    /\ ret.results[1].score = ret.results[2].score
    /\ CosineSimilarity(Emb(ret.q), xdocuments[3].embedding) = ret.results[2].score

\* the search of the running variant's index
StoreSearch(q, k) ==
    IF variant = "exact" THEN XSearchResult(xdocuments, Emb(q), k)
    ELSE SearchResult(index, documents, Emb(q), k)

\* C24: retrieve(query, top_k) returns one element per result of the index's search
\* for the embedded query, in the same rank order, each carrying the record's text,
\* its metadata and its score; with no records indexed it returns an empty list.
C24_RetrieveProjectsSearch ==
    (ret.op = "retrieve" /\ StoreSearch(ret.q, ret.k).status = "ok")
    => LET found == StoreSearch(ret.q, ret.k).results
       IN  /\ ret.status = "ok"
           /\ Len(ret.results) = Len(found)
           /\ \A j \in 1..Len(ret.results) :
                /\ DOMAIN ret.results[j] = {"text", "metadata", "score"}
                /\ ret.results[j].text = found[j].doc.text
                /\ ret.results[j].metadata = found[j].doc.metadata
                /\ ret.results[j].score = found[j].score
           /\ StoreCount = 0 => ret.results = <<>>

\* C25: in both pipelines query on a pipeline whose index holds no records returns
\* the fixed "no relevant documents found" message as a normal result, without
\* raising and without calling the LLM; the LLM is called only when retrieval
\* returned at least one record.
C25_NothingRetrievedNoLLM ==
    /\ (ret.op = "query" /\ StoreCount = 0)
       => /\ ret.status = "ok"
          /\ ret.answer \in {"No relevant documents found.",
                              "No relevant documents found in the knowledge base."}
          /\ ~ret.llm
    /\ (ret.op = "query" /\ ret.llm)
       => /\ StoreSearch(ret.q, ret.k).status = "ok"
          /\ StoreSearch(ret.q, ret.k).results # <<>>

\* C26: normalized index: after any sequence of add, add_batch (with any argument
\* lengths it accepts) and successful load, every position the similarity structure
\* returns for a query is negative (skipped) or a valid index into the record list,
\* so search does not fail with an out-of-range lookup.
C26_HitsAreRecordPositions ==
    (/\ variant = "normalized"
     /\ ret.op = "search"
     /\ ret.k >= 1
     /\ ret.before > 0
     /\ QueryFits(ret.q))
    => LET found == IndexSearch(index, Normalize(Emb(ret.q)), Min(ret.k, ntotal(index)))
       IN  /\ \A j \in 1..Len(found) : found[j].idx < Count(documents)
           /\ ret.status = "ok"

\* C27: normalized index: an add or add_batch call that raises (the similarity
\* structure rejecting vectors of the wrong dimension) leaves the similarity structure
\* and the record list unchanged.
C27_FailedAddChangesNothing ==
    [][(/\ variant = "normalized"
        /\ ret'.op \in {"add", "add_batch"}
        /\ ret'.status = "error")
       => UNCHANGED <<index, documents>>]_vars

C27_Witness ==
    /\ variant = "normalized"
    /\ ret.op = "add" /\ ret.status = "error"
    /\ ntotal(index) > 0
    /\ Count(documents) = ntotal(index)

\* C28: normalized index: in every reachable state the dimension attribute equals the
\* vector dimension of the similarity structure, also after a successful load of
\* artifacts saved from an index of another dimension.
C28_DimensionIsTheIndexDimension ==
    variant = "normalized" => dimension = index.d

\* C29: normalized index: every stored record holds a metadata mapping of its own
\* (so do the records of one add_batch call without a metadatas argument): changing
\* the metadata of one stored record changes the metadata of no other record.
C29_MetadataIsNotShared ==
    [][\A i \in 1..MaxVecs :
         SetMetadata(i)
         => \A j \in 1..Count(documents) :
              j # i => documents'[j].metadata = documents[j].metadata]_vars

\* the arguments the claim is about
PdfArgsOk == 0 <= pdf.overlap /\ pdf.overlap < pdf.chunk_size

\* the chunks emitted so far are numbered 0, 1, 2, ... in output order, page by page
ConsecutiveChunks ==
    /\ pdf.chunk_index = Len(pdf.chunks)
    /\ \A i \in 1..Len(pdf.chunks) : pdf.chunks[i].chunk = i - 1
    /\ \A i, j \in 1..Len(pdf.chunks) : i < j => pdf.chunks[i].page <= pdf.chunks[j].page

\* C30: whenever 0 <= overlap < chunk_size, load_pdf's chunking loop terminates for
\* every page text: start strictly increases on every iteration until it reaches the
\* end of the text, load_pdf returns, and the chunks carry the consecutive numbers
\* 0, 1, 2, ... in output order across all pages.
C30_ChunkingTerminates ==
    /\ [](PdfArgsOk => ConsecutiveChunks)
    /\ [][(PdfArgsOk /\ PdfChunk) => (pdf'.start > pdf.start /\ pdf.start < Len(pdf.text))]_vars
    /\ (PdfArgsOk => <>(pdf.pc = "done"))

C30_Witness ==
    /\ PdfArgsOk
    /\ pdf.pc = "done"
    /\ pdf.overlap > 0
    /\ Len(pdf.chunks) >= 3
    /\ pdf.chunks[1].page # pdf.chunks[Len(pdf.chunks)].page

====
